---- MODULE Spec2Model ----
(***************************************************************************)
(* TransformationAgent (src/TransformationSystem/Agent/                    *)
(* TransformationAgent.py): the poller execute(), the worker loop          *)
(* _execute(), the per-transformation pipeline processTransformation(),    *)
(* the sampling __applyReduction() and the replica cache                   *)
(* (__getDataReplicas / __cleanCache).                                     *)
(*                                                                         *)
(* Python's call semantics are kept: a call whose arguments do not fit the *)
(* callee's signature raises TypeError at the call, before the callee's    *)
(* body runs.  The logging helpers (__logInfo, ...) live outside this file *)
(* and are taken to return normally without touching the agent's state.    *)
(***************************************************************************)
EXTENDS Integers, Sequences, FiniteSets, TLC

\* ------------------------------------------------------------- bounds
NumWorkers == 2      \* maxThreadsInPool of the checked configuration
NumTrans == 2        \* transformations known to the registry
MaxLfns == 4         \* file identifiers (LFNs) a transformation has
MaxMaxFiles == 3     \* largest configured MaxFiles (self.maxFiles, line 34)
MaxSnapshots == 2    \* snapshots in the cache file read at start-up
MaxTime == 3         \* latest reading of the clock, in days

\* self.replicaCacheValidity, in days
replicaCacheValidity == 2

Workers == 1..NumWorkers
TransIDs == 101..(100 + NumTrans)
Lfns == 1..MaxLfns

\* The Type values of a descriptor: line 141 tells 'replication' and
\* 'removal' (case-insensitively) from every other type.
Types == {"Replication", "Removal", "Processing"}

\* The statuses of the descriptors the registry hands out.  The filter
\* self.transformationStatus (line 33) also lets 'Completing' through; the
\* agent compares a status with 'Flush' only (lines 204, 261, 271), so
\* 'Active' stands for every status that is not 'Flush'.
transformationStatus == {"Active", "Flush"}

\* The registry's Type of a transformation (fixed per transformation).
TypeOf(t) == IF t % 2 = 1 THEN "Replication" ELSE "Processing"

Range(s) == {s[i] : i \in DOMAIN s}

\* The ascending sequence of the elements of a finite set of integers.
RECURSIVE SetToSeq(_)
SetToSeq(S) ==
  IF S = {} THEN <<>>
  ELSE LET m == CHOOSE x \in S : \A y \in S : x <= y
       IN <<m>> \o SetToSeq(S \ {m})

\* The lists without repetition over a finite set.
InjSeqs(S) ==
  UNION {{q \in [1..n -> S] : \A i, j \in 1..n : q[i] = q[j] => i = j} :
           n \in 0..Cardinality(S)}

\* A Python dict: a function on the set of its keys.
EmptyDict == [k \in {} |-> 0]
DictGet(d, k, default) == IF k \in DOMAIN d THEN d[k] ELSE default

VARIABLES
  \* --- the agent (execute / _execute)
  transInQueue,   \* self.transInQueue: list of transformation ids
  transQueue,     \* self.transQueue: FIFO of descriptors
  pcP,            \* position of the poller inside execute()
  pollRes,        \* execute(): the descriptors of res['Value'] not yet visited
  count,          \* execute(): local count
  pc,             \* position of each worker inside _execute()
  transDict,      \* _execute(): the descriptor the worker holds
  res,            \* _execute(): outcome of processTransformation
  \* --- one cycle of the pipeline (processTransformation)
  unusedFiles,    \* self.unusedFiles: dict transID -> recorded remaining count
  cyc,            \* "call": about to run the cycle; "returned": it is over
  cDict,          \* the descriptor handed to processTransformation
  cUnused,        \* the registry: Unused work-items of cDict's transformation
  cEnv,           \* what the services and the strategy answer during the cycle
  cOut,           \* the outcome of the cycle
  \* --- __applyReduction
  maxFiles,       \* self.maxFiles
  redPc,          \* "idle", "call" (arguments bound), "done" (returned)
  redLfns,        \* the argument lfns
  redOut,         \* the list returned
  \* --- the replica cache (__getDataReplicas / __cleanCache)
  replicaCache,   \* self.replicaCache: transID -> time stamp -> lfn -> replicas
  cacheFile,      \* the pickle file self.cacheFile
  now,            \* the last reading of datetime.utcnow(), in days
  catalogUp,      \* whether the catalog had replicas for the worker's batch
  rpc,            \* position of each worker inside __getDataReplicas
  rTrans,         \* its argument transID
  rLfns,          \* its argument lfns
  dataReplicas,   \* its local dataReplicas
  rOut,           \* its outcome
  \* --- __getDataReplicasRM and its call at line 336
  rmVia,          \* "none"; "direct": the method was called; "resolve": line 336 ran
  rmTrans,        \* the argument transID
  rmLfns,         \* the batch of lfns asked for
  rmActive,       \* the argument active
  rmCatalog,      \* what the catalog answers for the batch
  rmRegistryOK,   \* whether the registry accepts a file-status update
  rmOut,          \* the outcome and the remote calls issued
  \* --- self.lock
  lock,           \* the worker that holds self.lock, 0 when it is free
  lpc             \* position of each worker inside __getDataReplicas, lock steps told apart

agentVars == <<transInQueue, transQueue, pcP, pollRes, count, pc, transDict, res>>
cycleVars == <<unusedFiles, cyc, cDict, cUnused, cEnv, cOut>>
redVars == <<maxFiles, redPc, redLfns, redOut>>
cacheVars == <<replicaCache, cacheFile, now, catalogUp, rpc, rTrans, rLfns,
               dataReplicas, rOut>>

rmVars == <<rmVia, rmTrans, rmLfns, rmActive, rmCatalog, rmRegistryOK, rmOut>>

lockVars == <<lock, lpc>>

vars == <<agentVars, cycleVars, redVars, cacheVars, rmVars, lockVars>>

NoDict == [TransformationID |-> 0, Status |-> "", Type |-> ""]
NoRes == [kind |-> "none", exc |-> "", calls |-> <<>>]

\* ------------------------------------------------------ the pipeline
\* Outcomes of a call: a result S_OK / S_ERROR, or a raised exception;
\* calls: the remote calls issued while it ran.
Raised(e) == [kind |-> "raise", exc |-> e, calls |-> <<>>]

\* processTransformation, lines 140-146.  Line 144 calls
\* self._getTransformationFiles() with no argument while the method is
\* declared _getTransformationFiles( self, transDict ): the call raises
\* TypeError before any statement of the method runs, and nothing catches it
\* inside processTransformation, so lines 145-212 never run.
processTransformation(td) == Raised("TypeError")

\* ---------------------------------------------------------- execute()
\* line 84: transID not in self.transInQueue
NotInQueueAlways(transID, inq) == TRUE
NotInQueue(transID, inq) == transID \notin Range(inq)

\* lines 76-81: getTransformations() failed: execute returns at once.
GetTransformationsFail ==
  /\ pcP = "idle"
  /\ UNCHANGED <<agentVars, cycleVars, redVars, cacheVars, rmVars, lockVars>>

\* lines 76-81: getTransformations() returned the descriptors of the
\* transformations the registry holds with a status of the filter.
GetTransformations ==
  /\ pcP = "idle"
  /\ \E sub \in SUBSET TransIDs :
       \E st \in [sub -> transformationStatus] :
         pollRes' = [i \in 1..Cardinality(sub) |->
                       [TransformationID |-> SetToSeq(sub)[i],
                        Status |-> st[SetToSeq(sub)[i]],
                        Type |-> TypeOf(SetToSeq(sub)[i])]]
  /\ count' = 0
  /\ pcP' = "loop"
  /\ UNCHANGED <<transInQueue, transQueue, pc, transDict, res, cycleVars, redVars, cacheVars, rmVars, lockVars>>

\* lines 82-84 and 88-89: next descriptor of the loop, or the end of execute().
LoopCheck ==
  /\ pcP = "loop"
  /\ IF pollRes = <<>>
       THEN /\ pcP' = "idle"
            /\ UNCHANGED pollRes
       ELSE IF NotInQueue(Head(pollRes).TransformationID, transInQueue)
              THEN /\ pcP' = "append"
                   /\ UNCHANGED pollRes
              ELSE /\ pcP' = "loop"
                   /\ pollRes' = Tail(pollRes)
  /\ UNCHANGED <<transInQueue, transQueue, count, pc, transDict, res, cycleVars, redVars, cacheVars, rmVars, lockVars>>

\* lines 85-86
PollAppend ==
  /\ pcP = "append"
  /\ count' = count + 1
  /\ transInQueue' = Append(transInQueue, Head(pollRes).TransformationID)
  /\ pcP' = "put"
  /\ UNCHANGED <<transQueue, pollRes, pc, transDict, res, cycleVars, redVars, cacheVars, rmVars, lockVars>>

\* line 87
PollPut ==
  /\ pcP = "put"
  /\ transQueue' = Append(transQueue, Head(pollRes))
  /\ pollRes' = Tail(pollRes)
  /\ pcP' = "loop"
  /\ UNCHANGED <<transInQueue, count, pc, transDict, res, cycleVars, redVars, cacheVars, rmVars, lockVars>>

\* --------------------------------------------------------- _execute()
\* Get with the in-flight entry dropped at dequeue time instead of in the
\* finally clause.
GetReleasingEarly(w) ==
  /\ pc[w] = "get"
  /\ transQueue # <<>>
  /\ transDict' = [transDict EXCEPT ![w] = Head(transQueue)]
  /\ transQueue' = Tail(transQueue)
  /\ transInQueue' = SelectSeq(transInQueue,
                        LAMBDA x : x # Head(transQueue).TransformationID)
  /\ res' = [res EXCEPT ![w] = NoRes]
  /\ pc' = [pc EXCEPT ![w] = "process"]
  /\ UNCHANGED <<pcP, pollRes, count, cycleVars, redVars, cacheVars, rmVars, lockVars>>

\* line 119: blocking get
Get(w) ==
  /\ pc[w] = "get"
  /\ transQueue # <<>>
  /\ transDict' = [transDict EXCEPT ![w] = Head(transQueue)]
  /\ transQueue' = Tail(transQueue)
  /\ res' = [res EXCEPT ![w] = NoRes]
  /\ pc' = [pc EXCEPT ![w] = "process"]
  /\ UNCHANGED <<transInQueue, pcP, pollRes, count, cycleVars, redVars, cacheVars, rmVars, lockVars>>

\* Where the worker goes once the try statement (its finally included) is
\* over: `except Exception` (line 129) has caught what the pipeline raised, so
\* the while loop goes on whatever the outcome.
AfterTryNoExcept(outcome) == IF outcome.kind = "raise" THEN "exited" ELSE "get"
AfterTry(outcome) == "get"

\* lines 121-130: the call of processTransformation and the logging of its
\* outcome (result OK, result not OK, exception caught at line 129).
Process(w) ==
  /\ pc[w] = "process"
  /\ res' = [res EXCEPT ![w] = processTransformation(transDict[w])]
  /\ pc' = [pc EXCEPT ![w] = "finally"]
  /\ UNCHANGED <<transInQueue, transQueue, pcP, pollRes, count, transDict, cycleVars, redVars, cacheVars, rmVars, lockVars>>

\* list.remove: the first occurrence is dropped.
RECURSIVE ListRemove(_, _)
ListRemove(s, x) ==
  IF s = <<>> THEN <<>>
  ELSE IF Head(s) = x THEN Tail(s)
  ELSE <<Head(s)>> \o ListRemove(Tail(s), x)

\* line 132: if transID in self.transInQueue.  When the test fails the try
\* statement is over; transDict and res are dead until the next get assigns
\* them, and are cleared.
Finally(w) ==
  /\ pc[w] = "finally"
  /\ IF transDict[w].TransformationID \in Range(transInQueue)
       THEN /\ pc' = [pc EXCEPT ![w] = "remove"]
            /\ UNCHANGED <<transDict, res>>
       ELSE /\ pc' = [pc EXCEPT ![w] = AfterTry(res[w])]
            /\ transDict' = [transDict EXCEPT ![w] = NoDict]
            /\ res' = [res EXCEPT ![w] = NoRes]
  /\ UNCHANGED <<transInQueue, transQueue, pcP, pollRes, count, cycleVars, redVars, cacheVars, rmVars, lockVars>>

\* line 133: self.transInQueue.remove( transID ), the end of the try statement.
Remove(w) ==
  /\ pc[w] = "remove"
  /\ transInQueue' = ListRemove(transInQueue, transDict[w].TransformationID)
  /\ pc' = [pc EXCEPT ![w] = AfterTry(res[w])]
  /\ transDict' = [transDict EXCEPT ![w] = NoDict]
  /\ res' = [res EXCEPT ![w] = NoRes]
  /\ UNCHANGED <<transQueue, pcP, pollRes, count, cycleVars, redVars, cacheVars, rmVars, lockVars>>

\* ---------------------------------------------------------- finalize()
\* finalize() runs on the thread that runs execute(), once the last
\* execute() has returned: from then on nothing is appended to
\* self.transInQueue.
\* lines 217-219: the first tests of self.transInQueue.
FinalizeCall ==
  /\ pcP = "idle"
  /\ pcP' = IF transInQueue # <<>> THEN "finalizing" ELSE "finalized"
  /\ UNCHANGED <<transInQueue, transQueue, pollRes, count, pc, transDict, res, cycleVars, redVars, cacheVars, rmVars, lockVars>>

\* The loop left after the first sleep, without a new test.
FinalizeLoopNoTest ==
  /\ pcP = "finalizing"
  /\ pcP' = "finalized"
  /\ UNCHANGED <<transInQueue, transQueue, pollRes, count, pc, transDict, res, cycleVars, redVars, cacheVars, rmVars, lockVars>>

\* lines 219-222: while self.transInQueue: time.sleep( 2 ); the loop is
\* left, and finalize returns, when the test finds the list empty.
FinalizeLoop ==
  /\ pcP = "finalizing"
  /\ transInQueue = <<>>
  /\ pcP' = "finalized"
  /\ UNCHANGED <<transInQueue, transQueue, pollRes, count, pc, transDict, res, cycleVars, redVars, cacheVars, rmVars, lockVars>>

\* ------------------------------------------------- one pipeline cycle
\* processTransformation applied to any descriptor, the registry holding any
\* list of Unused work-items for its transformation.
Descriptors ==
  [TransformationID : TransIDs, Status : transformationStatus, Type : Types]

\* The step of the pipeline whose service answers with an error in this
\* cycle: the enumeration of line 251, the resolution of line 158, the
\* construction of the plug-in (line 171), generateTasks (line 180); or none.
Steps == {"none", "enumerate", "resolve", "plugin", "generate"}

\* The groups generateTasks answers with (line 185), each a set of lfns:
\* none, one group of all files, or one group per file.
Groupings(q) ==
  {<<>>}
  \cup (IF q = <<>> THEN {}
        ELSE {<<Range(q)>>, [i \in 1..Len(q) |-> {q[i]}]})

\* failed: the groups whose addTaskForTransformation (line 190) is not OK.
Envs(q) ==
  UNION {[fail : Steps, groups : {g}, failed : SUBSET DOMAIN g] :
           g \in Groupings(q)}
NoEnv == [fail |-> "none", groups |-> <<>>, failed |-> {}]

CycleStart ==
  /\ cyc = "idle"
  /\ cDict' \in Descriptors
  /\ cUnused' \in InjSeqs(Lfns)
  /\ cEnv' \in Envs(cUnused')
  /\ cOut' = NoRes
  /\ cyc' = "call"
  /\ UNCHANGED <<unusedFiles, agentVars, redVars, cacheVars, rmVars, lockVars>>

CycleRun ==
  /\ cyc = "call"
  /\ cOut' = processTransformation(cDict)
  /\ cyc' = "returned"
  /\ UNCHANGED <<unusedFiles, cDict, cUnused, cEnv, agentVars, redVars, cacheVars, rmVars, lockVars>>

\* The worker has taken the outcome (lines 124-130).
CycleOver ==
  /\ cyc = "returned"
  /\ cyc' = "idle"
  /\ cDict' = NoDict
  /\ cUnused' = <<>>
  /\ cEnv' = NoEnv
  /\ cOut' = NoRes
  /\ UNCHANGED <<unusedFiles, agentVars, redVars, cacheVars, rmVars, lockVars>>

\* --------------------------------------------------- __applyReduction
\* A Python slice s[a:b] of a list: a negative bound counts from the end,
\* bounds are clipped to the list.
PyIndex(n, k) ==
  LET j == IF k < 0 THEN k + n ELSE k
  IN IF j < 0 THEN 0 ELSE IF j > n THEN n ELSE j
PySlice(q, a, b) == SubSeq(q, PyIndex(Len(q), a) + 1, PyIndex(Len(q), b))

\* lines 281-284: 0, or int( random.uniform( 0, len( lfns ) - self.maxFiles ) )
FirstFiles(lfns, m) ==
  IF Len(lfns) <= m THEN {0} ELSE 0..(Len(lfns) - m)

\* line 285: lfns[firstFile:firstFile + self.maxFiles - 1]
applyReduction(lfns, m, firstFile) == PySlice(lfns, firstFile, firstFile + m - 1)

ReductionCall ==
  /\ redPc \in {"idle", "done"}
  /\ redLfns' \in InjSeqs(Lfns)
  /\ maxFiles' \in 1..MaxMaxFiles
  /\ redOut' = <<>>
  /\ redPc' = "call"
  /\ UNCHANGED <<agentVars, cycleVars, cacheVars, rmVars, lockVars>>

ReductionReturn ==
  /\ redPc = "call"
  /\ \E firstFile \in FirstFiles(redLfns, maxFiles) :
       redOut' = applyReduction(redLfns, maxFiles, firstFile)
  /\ redPc' = "done"
  /\ UNCHANGED <<maxFiles, redLfns, agentVars, cycleVars, cacheVars, rmVars, lockVars>>

\* -------------------------------------------------- the replica cache
\* The replicas of a file, as the catalog gave them: storage element ->
\* PFN, here the name of the storage element.
Replicas == {"SE1"}

\* The transformations and the files of the resolve calls.
CacheTrans == {101, 102}
CacheLfns == {1, 2}

\* The time stamps of the snapshots of the cache file: up to
\* replicaCacheValidity days before the agent starts.
SnapTimes == 0..replicaCacheValidity

ROk(v) == [kind |-> "OK", value |-> v]
RRaised == [kind |-> "raise", value |-> EmptyDict]
RNone == [kind |-> "none", value |-> EmptyDict]

Perms(S) ==
  {q \in [1..Cardinality(S) -> S] : \A i, j \in DOMAIN q : q[i] = q[j] => i = j}

\* lines 318-321: the snapshots are visited in the order of the dict's keys;
\* a later snapshot's entry for an lfn replaces an earlier one's.
RECURSIVE ScanFold(_, _, _, _)
ScanFold(snaps, order, lfns, acc) ==
  IF order = <<>> THEN acc
  ELSE LET cachedReplicas == snaps[Head(order)]
           hit == DOMAIN cachedReplicas \cap lfns
       IN ScanFold(snaps, Tail(order), lfns,
                   [f \in DOMAIN acc \cup hit |->
                      IF f \in hit THEN cachedReplicas[f] ELSE acc[f]])

\* lines 315-321: the values dataReplicas can have after the scan.
ScanResults(cache, transID, lfns) ==
  IF transID \in DOMAIN cache
    THEN {ScanFold(cache[transID], order, lfns, EmptyDict) :
            order \in Perms(DOMAIN cache[transID])}
    ELSE {EmptyDict}

\* The removal applied to the snapshots of every transformation.
CompactEvery(cache, transID, lfns) ==
  [t \in DOMAIN cache |->
     [crs \in DOMAIN cache[t] |->
        [f \in DOMAIN cache[t][crs] \cap lfns |-> cache[t][crs][f]]]]

\* The scan without the removal of lines 322-324.
CompactNothing(cache, transID, lfns) == cache

\* lines 322-324: every snapshot of transID loses the entries whose lfn is
\* not in lfns.
Compact(cache, transID, lfns) ==
  [t \in DOMAIN cache |->
     IF t = transID
       THEN [crs \in DOMAIN cache[t] |->
               [f \in DOMAIN cache[t][crs] \cap lfns |-> cache[t][crs][f]]]
       ELSE cache[t]]

\* line 332
NewLFNs(w) == rLfns[w] \ DOMAIN dataReplicas[w]

\* No worker other than w is inside the pipeline of transformation t.
Exclusive(w, t) ==
  \A w2 \in Workers \ {w} : rpc[w2] = "idle" \/ rTrans[w2] # t

\* lines 309-336: the call, the scan and the compaction under self.lock
\* (313-328), then newLFNs (332).  When newLFNs is not empty, line 336 calls
\* self.__getDataReplicasRM( self, transID, newLFNs, active = active ): a
\* bound method handed self once more, so that `active` gets a positional
\* and a keyword value.  That call raises TypeError before the catalog is
\* asked; lines 337-346 do not run and the exception leaves
\* __getDataReplicas.  Nothing but locals is touched between the release of
\* the lock and the raise.  catalogUp[w] tells what the catalog, which is
\* never reached, held for newLFNs at that moment: replicas for some of them
\* (TRUE), or nothing usable (FALSE).
Scan(w) ==
  /\ rpc[w] = "idle"
  /\ \E t \in CacheTrans : \E lfns \in SUBSET CacheLfns :
       /\ Exclusive(w, t)
       /\ rTrans' = [rTrans EXCEPT ![w] = t]
       /\ rLfns' = [rLfns EXCEPT ![w] = lfns]
       /\ \E dr \in ScanResults(replicaCache, t, lfns) :
            /\ dataReplicas' = [dataReplicas EXCEPT ![w] = dr]
            /\ IF lfns \ DOMAIN dr # {}
                 THEN /\ \E up \in BOOLEAN :
                           catalogUp' = [catalogUp EXCEPT ![w] = up]
                      /\ rOut' = [rOut EXCEPT ![w] = RRaised]
                      /\ rpc' = [rpc EXCEPT ![w] = "done"]
                 ELSE /\ UNCHANGED <<catalogUp, rOut>>
                      /\ rpc' = [rpc EXCEPT ![w] = "scanned"]
       /\ replicaCache' = Compact(replicaCache, t, lfns)
  /\ UNCHANGED <<cacheFile, now, agentVars, cycleVars, redVars, rmVars, lockVars>>

\* The eviction without the test for an empty snapshot.
CleanedKeepingEmpty(cache, timeLimit) ==
  LET kept(t) == {ut \in DOMAIN cache[t] : ~(ut < timeLimit)}
  IN [t \in {x \in DOMAIN cache : kept(x) # {}} |->
        [ut \in kept(t) |-> cache[t][ut]]]

\* lines 393-402: a snapshot older than timeLimit or empty is dropped, and
\* so is a transformation left with no snapshot.
Cleaned(cache, timeLimit) ==
  LET kept(t) == {ut \in DOMAIN cache[t] :
                    ~(ut < timeLimit \/ DOMAIN cache[t][ut] = {})}
  IN [t \in {x \in DOMAIN cache : kept(x) # {}} |->
        [ut \in kept(t) |-> cache[t][ut]]]

\* lines 333, 345-346 and 387-407: newLFNs is empty; __cleanCache evicts
\* under self.lock and writes the cache file (lines 403, 426-439; a write
\* that fails is logged only and is left out); __getDataReplicas returns
\* S_OK( dataReplicas ).
CleanCache(w) ==
  /\ rpc[w] = "scanned"
  /\ NewLFNs(w) = {}
  /\ now' \in now..MaxTime
  /\ replicaCache' = Cleaned(replicaCache, now' - replicaCacheValidity)
  /\ cacheFile' = replicaCache'
  /\ rOut' = [rOut EXCEPT ![w] = ROk(dataReplicas[w])]
  /\ rpc' = [rpc EXCEPT ![w] = "done"]
  /\ UNCHANGED <<catalogUp, rTrans, rLfns, dataReplicas, agentVars, cycleVars, redVars, rmVars, lockVars>>

\* The pipeline that called __getDataReplicas is over.
ResolveOver(w) ==
  /\ rpc[w] = "done"
  /\ rpc' = [rpc EXCEPT ![w] = "idle"]
  /\ rTrans' = [rTrans EXCEPT ![w] = 0]
  /\ rLfns' = [rLfns EXCEPT ![w] = {}]
  /\ dataReplicas' = [dataReplicas EXCEPT ![w] = EmptyDict]
  /\ rOut' = [rOut EXCEPT ![w] = RNone]
  /\ catalogUp' = [catalogUp EXCEPT ![w] = TRUE]
  /\ UNCHANGED <<replicaCache, cacheFile, now, agentVars, cycleVars, redVars, rmVars, lockVars>>

\* The caches a cache file can hold: at most MaxSnapshots snapshots, none
\* of them empty (the file is written after an eviction).
Slots == CacheTrans \X SnapTimes
SnapshotContents == UNION {[fs -> Replicas] : fs \in SUBSET CacheLfns \ {{}}}
MkCache(K, c) ==
  [t \in {k[1] : k \in K} |->
     [ut \in {k[2] : k \in {x \in K : x[1] = t}} |-> c[<<t, ut>>]]]
CacheFiles ==
  UNION {{MkCache(K, c) : c \in [K -> SnapshotContents]} :
           K \in {k \in SUBSET Slots : Cardinality(k) <= MaxSnapshots}}

CacheWorkersIdle ==
  /\ rpc = [w \in Workers |-> "idle"]
  /\ rTrans = [w \in Workers |-> 0]
  /\ rLfns = [w \in Workers |-> {}]
  /\ dataReplicas = [w \in Workers |-> EmptyDict]
  /\ rOut = [w \in Workers |-> RNone]
  /\ catalogUp = [w \in Workers |-> TRUE]

\* lines 51-52 and 409-424: __readCache loads the cache file; a file that
\* cannot be loaded counts as the empty cache (line 421).
CacheInit ==
  /\ cacheFile \in CacheFiles
  /\ replicaCache = cacheFile
  /\ now = replicaCacheValidity
  /\ CacheWorkersIdle

\* The cache of an agent that found no cache file.
CacheEmpty ==
  /\ cacheFile = EmptyDict
  /\ replicaCache = EmptyDict
  /\ now = replicaCacheValidity
  /\ CacheWorkersIdle

\* ------------------------------------------- __getDataReplicasRM
\* The storage elements of the catalog's answers.  Line 366 looks for
\* 'failover' in se.lower().
SEs == {"CERN-RAW", "CERN-FAILOVER"}
Lower(se) ==
  CASE se = "CERN-RAW" -> "cern-raw"
    [] se = "CERN-FAILOVER" -> "cern-failover"
\* re.search( 'failover', s ) over the lower-cased names above
SearchFailover(s) == s = "cern-failover"

\* The reasons of res['Value']['Failed']; line 375 looks for
\* "No such file or directory" in the reason.
Reasons == {"No such file or directory", "Permission denied"}
SearchNoSuchFile(reason) == reason = "No such file or directory"

\* What the catalog holds for one lfn: an entry of 'Successful' (its
\* replicas, se -> PFN, possibly none) or an entry of 'Failed' (a reason).
FileAnswers ==
  {[ok |-> TRUE, replicas |-> [se \in ses |-> se], reason |-> ""] :
     ses \in SUBSET SEs}
  \cup {[ok |-> FALSE, replicas |-> EmptyDict, reason |-> r] : r \in Reasons}

\* The answer of rm.getActiveReplicas / rm.getReplicas for a batch: not OK,
\* or OK with an entry for every lfn of the batch.
NoCatalog == [ok |-> FALSE, files |-> EmptyDict]
CatalogAnswers(lfns) ==
  {NoCatalog} \cup {[ok |-> TRUE, files |-> a] : a \in [lfns -> FileAnswers]}

RemoteCall(op, transID, status, lfns) ==
  [op |-> op, transID |-> transID, status |-> status, lfns |-> lfns]
RMResult(kind, value, calls) == [kind |-> kind, value |-> value, calls |-> calls]
RMNone == RMResult("none", EmptyDict, <<>>)

\* lines 349-385, the body of __getDataReplicasRM.
getDataReplicasRM(transID, lfns, active, catalog, registryOK) ==
  LET lookup == RemoteCall(IF active THEN "getActiveReplicas" ELSE "getReplicas",
                           transID, "", lfns)
  IN IF ~catalog.ok
       THEN RMResult("ERROR", EmptyDict, <<lookup>>)
       ELSE
         LET successful == {f \in lfns : catalog.files[f].ok}
             kept(f) == {se \in DOMAIN catalog.files[f].replicas :
                           ~(active /\ SearchFailover(Lower(se)))}
             replicas == [f \in {x \in successful : kept(x) # {}} |->
                            [se \in kept(f) |-> catalog.files[f].replicas[se]]]
             missingLfns == {f \in lfns \ successful :
                               SearchNoSuchFile(catalog.files[f].reason)}
             calls == IF missingLfns # {}
                        THEN <<lookup,
                               RemoteCall("setFileStatusForTransformation",
                                          transID, "MissingLFC", missingLfns)>>
                        ELSE <<lookup>>
         IN IF DOMAIN replicas = {}
              THEN RMResult("ERROR", EmptyDict, calls)
              ELSE RMResult("OK", replicas, calls)

\* line 336, the only call of the method:
\*   self.__getDataReplicasRM( self, transID, newLFNs, active = active )
\* The bound method receives self twice, so the parameters are bound as
\* transID = self, lfns = transID, active = newLFNs, and the keyword gives
\* active a second value: TypeError, raised before line 352 runs.
ResolveCallRM(transID, newLFNs, active, catalog, registryOK) ==
  RMResult("raise", EmptyDict, <<>>)

RMArguments(via) ==
  /\ rmVia = "none"
  /\ rmVia' = via
  /\ rmTrans' \in TransIDs
  /\ rmLfns' \in (SUBSET Lfns) \ {{}}
  /\ rmActive' \in BOOLEAN
  /\ rmCatalog' \in CatalogAnswers(rmLfns')
  /\ rmRegistryOK' \in BOOLEAN

\* The method called with its own parameters.
RMDirect ==
  /\ RMArguments("direct")
  /\ rmOut' = getDataReplicasRM(rmTrans', rmLfns', rmActive', rmCatalog',
                                rmRegistryOK')
  /\ UNCHANGED <<agentVars, cycleVars, redVars, cacheVars, lockVars>>

\* __getDataReplicas reaching line 336 with the batch newLFNs = rmLfns.
RMFromResolve ==
  /\ RMArguments("resolve")
  /\ rmOut' = ResolveCallRM(rmTrans', rmLfns', rmActive', rmCatalog',
                            rmRegistryOK')
  /\ UNCHANGED <<agentVars, cycleVars, redVars, cacheVars, lockVars>>

RMIdle ==
  /\ rmVia = "none"
  /\ rmTrans = 0
  /\ rmLfns = {}
  /\ rmActive = TRUE
  /\ rmCatalog = NoCatalog
  /\ rmRegistryOK = TRUE
  /\ rmOut = RMNone

\* The caller has taken the outcome.
RMOver ==
  /\ rmVia # "none"
  /\ rmVia' = "none"
  /\ rmTrans' = 0
  /\ rmLfns' = {}
  /\ rmActive' = TRUE
  /\ rmCatalog' = NoCatalog
  /\ rmRegistryOK' = TRUE
  /\ rmOut' = RMNone
  /\ UNCHANGED <<agentVars, cycleVars, redVars, cacheVars, lockVars>>

\* ------------------------------------------------ self.lock, step by step
\* __getDataReplicas and __cleanCache with the acquire and the release of
\* self.lock as steps of their own.
\* lines 309-313: the call with its arguments, up to lock.acquire().
LockCall(w) ==
  /\ lpc[w] = "idle"
  /\ \E t \in CacheTrans : \E lfns \in SUBSET CacheLfns :
       /\ \A w2 \in Workers \ {w} : lpc[w2] = "idle" \/ rTrans[w2] # t
       /\ rTrans' = [rTrans EXCEPT ![w] = t]
       /\ rLfns' = [rLfns EXCEPT ![w] = lfns]
  /\ lpc' = [lpc EXCEPT ![w] = "acquire"]
  /\ UNCHANGED <<lock, replicaCache, cacheFile, now, catalogUp, rpc, dataReplicas, rOut, agentVars, cycleVars, redVars, rmVars>>

\* line 313 (and line 390): self.lock.acquire() returns once the lock is free.
LockAcquire(w) ==
  /\ lpc[w] \in {"acquire", "acquireClean"}
  /\ lock = 0
  /\ lock' = w
  /\ lpc' = [lpc EXCEPT ![w] = IF lpc[w] = "acquire" THEN "scan" ELSE "evict"]
  /\ UNCHANGED <<cacheVars, agentVars, cycleVars, redVars, rmVars>>

\* lines 315-324: the scan and the compaction.
LockScan(w) ==
  /\ lpc[w] = "scan"
  /\ \E dr \in ScanResults(replicaCache, rTrans[w], rLfns[w]) :
       dataReplicas' = [dataReplicas EXCEPT ![w] = dr]
  /\ replicaCache' = Compact(replicaCache, rTrans[w], rLfns[w])
  /\ lpc' = [lpc EXCEPT ![w] = "release"]
  /\ UNCHANGED <<lock, cacheFile, now, catalogUp, rpc, rTrans, rLfns, rOut, agentVars, cycleVars, redVars, rmVars>>

\* The release of line 328 placed after the try statement's last line
\* instead of in its finally clause: the path to line 336 keeps the lock.
LockReleaseOnCleanOnly(w) ==
  /\ lpc[w] = "release"
  /\ lock' = IF NewLFNs(w) # {} THEN lock ELSE 0
  /\ lpc' = [lpc EXCEPT ![w] = IF NewLFNs(w) # {} THEN "rm" ELSE "acquireClean"]
  /\ UNCHANGED <<cacheVars, agentVars, cycleVars, redVars, rmVars>>

\* lines 327-333: finally: self.lock.release(); then newLFNs tells whether
\* the catalog is to be asked (line 336) or __cleanCache called (line 345).
LockRelease(w) ==
  /\ lpc[w] = "release"
  /\ lock' = 0
  /\ lpc' = [lpc EXCEPT ![w] = IF NewLFNs(w) # {} THEN "rm" ELSE "acquireClean"]
  /\ UNCHANGED <<cacheVars, agentVars, cycleVars, redVars, rmVars>>

\* line 336: the call of __getDataReplicasRM raises TypeError (see
\* ResolveCallRM); the exception leaves __getDataReplicas.
LockCallRM(w) ==
  /\ lpc[w] = "rm"
  /\ rOut' = [rOut EXCEPT ![w] = RRaised]
  /\ lpc' = [lpc EXCEPT ![w] = "done"]
  /\ UNCHANGED <<lock, replicaCache, cacheFile, now, catalogUp, rpc, rTrans, rLfns, dataReplicas, agentVars, cycleVars, redVars, rmVars>>

\* lines 392-403: the eviction and the write of the cache file.
LockEvict(w) ==
  /\ lpc[w] = "evict"
  /\ now' \in now..MaxTime
  /\ replicaCache' = Cleaned(replicaCache, now' - replicaCacheValidity)
  /\ cacheFile' = replicaCache'
  /\ lpc' = [lpc EXCEPT ![w] = "releaseClean"]
  /\ UNCHANGED <<lock, catalogUp, rpc, rTrans, rLfns, dataReplicas, rOut, agentVars, cycleVars, redVars, rmVars>>

\* lines 406-407 and 346: finally: self.lock.release(); return S_OK( dataReplicas ).
LockReleaseClean(w) ==
  /\ lpc[w] = "releaseClean"
  /\ lock' = 0
  /\ rOut' = [rOut EXCEPT ![w] = ROk(dataReplicas[w])]
  /\ lpc' = [lpc EXCEPT ![w] = "done"]
  /\ UNCHANGED <<replicaCache, cacheFile, now, catalogUp, rpc, rTrans, rLfns, dataReplicas, agentVars, cycleVars, redVars, rmVars>>

\* The pipeline that called __getDataReplicas is over.
LockOver(w) ==
  /\ lpc[w] = "done"
  /\ lpc' = [lpc EXCEPT ![w] = "idle"]
  /\ rTrans' = [rTrans EXCEPT ![w] = 0]
  /\ rLfns' = [rLfns EXCEPT ![w] = {}]
  /\ dataReplicas' = [dataReplicas EXCEPT ![w] = EmptyDict]
  /\ rOut' = [rOut EXCEPT ![w] = RNone]
  /\ UNCHANGED <<lock, replicaCache, cacheFile, now, catalogUp, rpc, agentVars, cycleVars, redVars, rmVars>>

\* A cache file with one snapshot per transformation, taken when the agent
\* last stopped and holding every file.
FullCache ==
  [t \in CacheTrans |-> [ut \in {0} |-> [f \in CacheLfns |-> "SE1"]]]
CacheFull ==
  /\ cacheFile = FullCache
  /\ replicaCache = cacheFile
  /\ now = replicaCacheValidity
  /\ CacheWorkersIdle

\* line 44: self.lock = threading.Lock(), free.
LockFree ==
  /\ lock = 0
  /\ lpc = [w \in Workers |-> "idle"]

\* ------------------------------------------------------ specification
\* __init__ (lines 42-54) and initialize (lines 63-68): an empty queue, an
\* empty in-flight list, no recorded counts, every worker blocked in get.
AgentInit ==
  /\ transInQueue = <<>>
  /\ transQueue = <<>>
  /\ pcP = "idle"
  /\ pollRes = <<>>
  /\ count = 0
  /\ pc = [w \in Workers |-> "get"]
  /\ transDict = [w \in Workers |-> NoDict]
  /\ res = [w \in Workers |-> NoRes]

CycleIdle ==
  /\ unusedFiles = EmptyDict
  /\ cyc = "idle"
  /\ cDict = NoDict
  /\ cUnused = <<>>
  /\ cEnv = NoEnv
  /\ cOut = NoRes

ReductionIdle ==
  /\ maxFiles = 1
  /\ redPc = "idle"
  /\ redLfns = <<>>
  /\ redOut = <<>>

Init == AgentInit /\ CycleIdle /\ ReductionIdle /\ CacheEmpty /\ RMIdle /\ LockFree

Next ==
  \/ GetTransformationsFail
  \/ GetTransformations
  \/ LoopCheck
  \/ PollAppend
  \/ PollPut
  \/ \E w \in Workers : Get(w)
  \/ \E w \in Workers : Process(w)
  \/ \E w \in Workers : Finally(w)
  \/ \E w \in Workers : Remove(w)

Spec == Init /\ [][Next]_vars

\* Every worker thread of the pool keeps being scheduled.
FairSpec ==
  /\ Spec
  /\ \A w \in Workers :
       /\ WF_vars(Get(w))
       /\ WF_vars(Process(w))
       /\ WF_vars(Finally(w))
       /\ WF_vars(Remove(w))

ShutdownNext == Next \/ FinalizeCall \/ FinalizeLoop

\* The worker threads keep being scheduled, and so does the thread that
\* sleeps in finalize().
FairShutdown ==
  /\ Init /\ [][ShutdownNext]_vars
  /\ \A w \in Workers :
       /\ WF_vars(Get(w))
       /\ WF_vars(Process(w))
       /\ WF_vars(Finally(w))
       /\ WF_vars(Remove(w))
  /\ WF_vars(FinalizeLoop)

CycleNext == CycleStart \/ CycleRun \/ CycleOver

SpecCycle == Init /\ [][CycleNext]_vars

ReductionNext == ReductionCall \/ ReductionReturn

SpecReduction == Init /\ [][ReductionNext]_vars

CacheNext ==
  \/ \E w \in Workers : Scan(w)
  \/ \E w \in Workers : CleanCache(w)
  \/ \E w \in Workers : ResolveOver(w)

InitCache == AgentInit /\ CycleIdle /\ ReductionIdle /\ CacheInit /\ RMIdle /\ LockFree

SpecCache == InitCache /\ [][CacheNext]_vars

LockNext ==
  \/ \E w \in Workers : LockCall(w)
  \/ \E w \in Workers : LockAcquire(w)
  \/ \E w \in Workers : LockScan(w)
  \/ \E w \in Workers : LockRelease(w)
  \/ \E w \in Workers : LockCallRM(w)
  \/ \E w \in Workers : LockEvict(w)
  \/ \E w \in Workers : LockReleaseClean(w)
  \/ \E w \in Workers : LockOver(w)

\* A thread that holds self.lock runs code that waits for nothing (lines
\* 315-328 and 392-407) and keeps being scheduled.  No fairness is asked of
\* the other steps: a worker may stay for ever where it is about to acquire
\* the lock, or at the call of line 336.
InitLock ==
  AgentInit /\ CycleIdle /\ ReductionIdle /\ CacheFull /\ RMIdle /\ LockFree

FairLock ==
  /\ InitLock /\ [][LockNext]_vars
  /\ \A w \in Workers :
       /\ WF_vars(LockScan(w))
       /\ WF_vars(LockRelease(w))
       /\ WF_vars(LockEvict(w))
       /\ WF_vars(LockReleaseClean(w))

RMNext == RMDirect \/ RMFromResolve \/ RMOver

SpecRM == Init /\ [][RMNext]_vars

\* ==================================================================
\* Properties
\* ==================================================================
InFlight == Range(transInQueue)
QueuedIDs == {transQueue[i].TransformationID : i \in DOMAIN transQueue}
Occurrences(s, x) == Cardinality({i \in DOMAIN s : s[i] = x})
InPipeline(w) == pc[w] = "process"
InTry(w) == pc[w] \in {"process", "finally", "remove"}

\* C1: under every interleaving of execute() and the _execute loops each
\* transformation id occurs at most once in transInQueue; execute() appends
\* an id only when it is not in the list; and the id is not in the list in
\* the state that follows the end of the worker's try statement for it
\* (processTransformation returned or raised, the finally clause has run).
C1_AtMostOnce == \A t \in TransIDs : Occurrences(transInQueue, t) <= 1
C1_AddedOnlyWhenAbsent ==
  \A t \in TransIDs :
    Occurrences(transInQueue', t) > Occurrences(transInQueue, t)
      => /\ t \notin InFlight
         /\ pcP = "append"
         /\ Head(pollRes).TransformationID = t
C1_AbsentAfterPipeline ==
  \A w \in Workers :
    (InTry(w) /\ ~InTry(w)')
      => transDict[w].TransformationID \notin Range(transInQueue')
C1_InFlightSet ==
  /\ []C1_AtMostOnce
  /\ [][C1_AddedOnlyWhenAbsent /\ C1_AbsentAfterPipeline]_vars
\* The poller meets, in a later poll, an id that is still in flight while a
\* worker is about to remove another one.
C1_Witness ==
  /\ Len(transInQueue) >= 2
  /\ pcP = "loop" /\ pollRes # <<>>
  /\ Head(pollRes).TransformationID \in InFlight
  /\ \E w \in Workers : pc[w] = "remove"

\* C2: no two workers are inside processTransformation for the same
\* transformation id at once, and no descriptor of an id waits in the queue
\* while a worker is inside processTransformation for that id.
C2_MutualExclusion ==
  /\ \A w1, w2 \in Workers :
       (w1 # w2 /\ InPipeline(w1) /\ InPipeline(w2))
         => transDict[w1].TransformationID # transDict[w2].TransformationID
  /\ \A w \in Workers :
       InPipeline(w) => transDict[w].TransformationID \notin QueuedIDs
\* Two workers are inside the pipeline while the poller, polling again, is
\* about to test the descriptor of a transformation one of them processes.
C2_Witness ==
  /\ \E w1, w2 \in Workers : w1 # w2 /\ InPipeline(w1) /\ InPipeline(w2)
  /\ pcP = "loop" /\ pollRes # <<>>
  /\ \E w \in Workers :
       InPipeline(w) /\ Head(pollRes).TransformationID = transDict[w].TransformationID

\* C3: whatever the outcome of processTransformation (a result or an
\* exception), the worker leaves the try statement only with the id removed
\* from transInQueue and only to block on the queue again; no worker ever
\* leaves its loop; and a queued descriptor is eventually taken into the
\* pipeline by some worker.
C3_Alive == \A w \in Workers : pc[w] \in {"get", "process", "finally", "remove"}
C3_BackToQueue ==
  \A w \in Workers :
    /\ (pc[w] = "process" /\ pc'[w] # "process")
         => /\ pc'[w] = "finally"
            /\ res'[w].kind \in {"OK", "ERROR", "raise"}
    /\ (InTry(w) /\ ~InTry(w)')
         => /\ pc'[w] = "get"
            /\ transDict[w].TransformationID \notin Range(transInQueue')
C3_Served ==
  \A t \in TransIDs :
    (t \in QueuedIDs)
      ~> (\E w \in Workers : InPipeline(w) /\ transDict[w].TransformationID = t)
C3_FailureIsolation ==
  /\ []C3_Alive
  /\ [][C3_BackToQueue]_vars
  /\ C3_Served
\* A worker whose pipeline raised is about to remove the id while another
\* descriptor waits in the queue.
C3_Witness ==
  \E w \in Workers :
    /\ pc[w] = "remove"
    /\ res[w].kind = "raise"
    /\ transQueue # <<>>

\* ------------------------------------------------------------------
CallsOf(o, op) == {i \in DOMAIN o.calls : o.calls[i].op = op}
ActiveRequested(o) == CallsOf(o, "setTransformationParameter") # {}
AllGroupsSubmitted(o) ==
  \A i \in CallsOf(o, "addTaskForTransformation") : o.calls[i].ok
GenerationFailed(o) == \E i \in CallsOf(o, "generateTasks") : ~o.calls[i].ok

\* C4: a cycle requests the transition to Active (setTransformationParameter
\* Status=Active) exactly when the descriptor's status is Flush, task
\* generation did not fail and every task-group submission of the cycle
\* succeeded, zero groups counting as all succeeded.
C4_FlushTransition ==
  cyc = "returned"
    => (ActiveRequested(cOut)
          <=> /\ cDict.Status = "Flush"
              /\ ~GenerationFailed(cOut)
              /\ AllGroupsSubmitted(cOut))

\* C5: a cycle of a transformation that is not in Flush and whose number of
\* Unused work-items equals the count recorded for it returns success and
\* issues no remote call after the enumeration.
C5_ShortCircuit ==
  ( /\ cyc = "returned"
    /\ cDict.Status # "Flush"
    /\ Len(cUnused) = DictGet(unusedFiles, cDict.TransformationID, 0) )
    => /\ cOut.kind = "OK"
       /\ \A i \in DOMAIN cOut.calls : cOut.calls[i].op = "getTransformationFiles"

\* ------------------------------------------------------------------
IsWindowOf(w, q) ==
  \E f \in 0..(Len(q) - Len(w)) : w = SubSeq(q, f + 1, f + Len(w))

\* C6: __applyReduction on a list of U identifiers with maximum M returns,
\* when U > M, a list of exactly M-1 items that is a contiguous,
\* order-preserving window of the argument, and, when U <= M (U = M
\* included), the argument unchanged.
C6_Sampling ==
  redPc = "done"
    => IF Len(redLfns) > maxFiles
         THEN Len(redOut) = maxFiles - 1 /\ IsWindowOf(redOut, redLfns)
         ELSE redOut = redLfns
\* What the code does: the U = M case loses the last item.
C6_SamplingAsCoded ==
  redPc = "done"
    => /\ IsWindowOf(redOut, redLfns)
       /\ Len(redOut) = IF Len(redLfns) >= maxFiles THEN maxFiles - 1
                        ELSE Len(redLfns)

\* ------------------------------------------------------------------
Resolved(w) == rpc[w] = "done"
SnapshotsOf(t) == IF t \in DOMAIN replicaCache THEN DOMAIN replicaCache[t] ELSE {}

\* C7: a resolve call over the files S of transformation T returns every
\* file of S found in a snapshot of T by the scan, with its cached replicas
\* (and asks the catalog for the other files of S only).
C7_CacheHit ==
  \A w \in Workers :
    Resolved(w)
      => \A f \in DOMAIN dataReplicas[w] :
           /\ rOut[w].kind = "OK"
           /\ f \in DOMAIN rOut[w].value
           /\ rOut[w].value[f] = dataReplicas[w][f]
           /\ f \notin NewLFNs(w)

\* C8: once a resolve call over the files S of transformation T is over, no
\* snapshot stored for T holds an entry for a file that is not in S.
C8_Compaction ==
  \A w \in Workers :
    Resolved(w)
      => \A ut \in SnapshotsOf(rTrans[w]) :
           DOMAIN replicaCache[rTrans[w]][ut] \subseteq rLfns[w]
\* A call is over whose transformation keeps two snapshots, one of which
\* held, in the cache file, a file that was not asked for.
C8_Witness ==
  \E w \in Workers :
    /\ Resolved(w)
    /\ Cardinality(SnapshotsOf(rTrans[w])) >= 2
    /\ rTrans[w] \in DOMAIN cacheFile
    /\ \E ut \in SnapshotsOf(rTrans[w]) \cap DOMAIN cacheFile[rTrans[w]] :
         ~(DOMAIN cacheFile[rTrans[w]][ut] \subseteq rLfns[w])

\* C9: in the state that follows the eviction pass of any resolve call, the
\* cache holds no snapshot older than the validity window, no empty
\* snapshot and no transformation without snapshots, whatever the other
\* workers are doing.
Evicted(cache, clock) ==
  \A t \in DOMAIN cache :
    /\ DOMAIN cache[t] # {}
    /\ \A ut \in DOMAIN cache[t] :
         /\ clock - ut <= replicaCacheValidity
         /\ DOMAIN cache[t][ut] # {}
C9_Eviction ==
  [][\A w \in Workers :
       (rpc[w] = "scanned" /\ rpc'[w] = "done") => Evicted(replicaCache', now')]_vars
\* A call that had cache hits has returned after an eviction pass that
\* dropped its whole transformation, while another worker is between its
\* scan and its own eviction pass.
C9_Witness ==
  \E w, w2 \in Workers :
    /\ w # w2
    /\ Resolved(w) /\ rOut[w].kind = "OK"
    /\ DOMAIN dataReplicas[w] # {}
    /\ rTrans[w] \notin DOMAIN replicaCache
    /\ rpc[w2] = "scanned"

\* C10: a resolve call that has files to ask the catalog for, at a moment
\* when the catalog has nothing usable for them, returns success with
\* exactly the replicas found by the cache scan.
C10_SoftFailure ==
  \A w \in Workers :
    (Resolved(w) /\ NewLFNs(w) # {} /\ ~catalogUp[w])
      => rOut[w] = ROk(dataReplicas[w])

\* ------------------------------------------------------------------
RMCatalogMissing == {f \in rmLfns : rmCatalog.ok /\ ~rmCatalog.files[f].ok
                                    /\ SearchNoSuchFile(rmCatalog.files[f].reason)}
MissingUpdates(f) ==
  {i \in DOMAIN rmOut.calls :
     /\ rmOut.calls[i].op = "setFileStatusForTransformation"
     /\ rmOut.calls[i].status = "MissingLFC"
     /\ f \in rmOut.calls[i].lfns}
MissingFilesHandled ==
  \A f \in rmLfns :
    IF f \in RMCatalogMissing
      THEN /\ Cardinality(MissingUpdates(f)) = 1
           /\ rmOut.kind \in {"OK", "ERROR"}
           /\ f \notin DOMAIN rmOut.value
      ELSE MissingUpdates(f) = {}

\* C11: when the catalog reports a file F of the batch as not found, the
\* resolve call issues exactly one 'missing' status update covering F, does
\* not raise, and F is no key of what it hands on; a file that failed for
\* another reason gets no such update.
C11_MissingFiles == rmVia = "resolve" => MissingFilesHandled
\* The same of the method body, were it entered.
C11_MissingFilesInBody == rmVia = "direct" => MissingFilesHandled

\* ------------------------------------------------------------------
\* The cycle is over, and the answers of its services take it ...
CycleTrans == cDict.TransformationID
Sampled == cDict.Type \in {"Replication", "Removal"}
ShortCircuited ==
  cDict.Status # "Flush" /\ Len(cUnused) = DictGet(unusedFiles, CycleTrans, 0)
\* ... past the enumeration with files to work on
PastEnumeration ==
  /\ cyc = "returned"
  /\ cEnv.fail # "enumerate"
  /\ cUnused # <<>>
  /\ ~ShortCircuited
\* ... to the submission of the groups
ReachesSubmission == PastEnumeration /\ cEnv.fail = "none"

Submissions(o) ==
  SelectSeq(o.calls, LAMBDA c : c.op = "addTaskForTransformation")
\* the number of lfns kept at line 155
KeptCounts ==
  IF Sampled
    THEN {Len(applyReduction(cUnused, maxFiles, ff)) :
            ff \in FirstFiles(cUnused, maxFiles)}
    ELSE {Len(cUnused)}
SubmittedFiles ==
  Cardinality(UNION {cEnv.groups[i] : i \in DOMAIN cEnv.groups \ cEnv.failed})
NoLaterStep(o) ==
  /\ CallsOf(o, "generateTasks") = {}
  /\ CallsOf(o, "addTaskForTransformation") = {}
  /\ CallsOf(o, "setTransformationParameter") = {}

\* C12: a cycle that reaches the submission issues one addTaskForTransformation
\* per group of the strategy, in the order of the groups, failed ones not
\* stopping the later ones, and records for the transformation the number
\* of lfns kept minus the number of files of the groups submitted with
\* success.
C12_TaskSubmission ==
  ReachesSubmission
    => /\ Len(Submissions(cOut)) = Len(cEnv.groups)
       /\ \A i \in DOMAIN cEnv.groups : Submissions(cOut)[i].lfns = cEnv.groups[i]
       /\ CycleTrans \in DOMAIN unusedFiles
       /\ unusedFiles[CycleTrans] \in {k - SubmittedFiles : k \in KeptCounts}
       /\ (cDict.Status # "Flush" => ~ActiveRequested(cOut))

\* C13: a cycle whose generateTasks answers with an error returns an error,
\* submits no task, records no count and requests no transition to Active.
C13_GenerationFailure ==
  (PastEnumeration /\ cEnv.fail = "generate")
    => /\ cOut.kind = "ERROR"
       /\ CallsOf(cOut, "addTaskForTransformation") = {}
       /\ CycleTrans \notin DOMAIN unusedFiles
       /\ ~ActiveRequested(cOut)

\* C14: a cycle whose enumeration, resolution or plug-in construction answers
\* with an error returns that error; no later step runs and no count is
\* recorded.
C14_EarlyFailure ==
  ( /\ cyc = "returned"
    /\ \/ cEnv.fail = "enumerate"
       \/ PastEnumeration /\ cEnv.fail \in {"resolve", "plugin"} )
    => /\ cOut.kind = "ERROR"
       /\ NoLaterStep(cOut)
       /\ CycleTrans \notin DOMAIN unusedFiles

\* C15: a cycle whose enumeration answers with no Unused work-item returns
\* success without catalog lookup, strategy or submission; it requests the
\* transition to Active once when the status is Flush and makes no further
\* remote call otherwise.
C15_NoUnusedFiles ==
  (cyc = "returned" /\ cEnv.fail # "enumerate" /\ cUnused = <<>>)
    => /\ cOut.kind = "OK"
       /\ CallsOf(cOut, "generateTasks") = {}
       /\ CallsOf(cOut, "addTaskForTransformation") = {}
       /\ CallsOf(cOut, "getReplicas") \cup CallsOf(cOut, "getActiveReplicas") = {}
       /\ Cardinality(CallsOf(cOut, "setTransformationParameter"))
            = IF cDict.Status = "Flush" THEN 1 ELSE 0

\* ------------------------------------------------------------------
\* C16: finalize() does not return while self.transInQueue holds an id;
\* once finalize() waits (the poller enqueues no more), every id of the
\* in-flight list is eventually removed and finalize() eventually returns.
C16_ShutdownDrains ==
  /\ [](pcP = "finalized" => transInQueue = <<>>)
  /\ \A t \in TransIDs :
       (pcP = "finalizing" /\ t \in InFlight) ~> (t \notin InFlight)
  /\ (pcP = "finalizing") ~> (pcP = "finalized")
\* finalize() waits while one id is still queued and another is held by a
\* worker about to remove it.
C16_Witness ==
  /\ pcP = "finalizing"
  /\ transQueue # <<>>
  /\ \E w \in Workers : pc[w] = "remove"

\* ------------------------------------------------------------------
InCriticalSection(w) == lpc[w] \in {"scan", "release", "evict", "releaseClean"}
FailoverSEs == {"CERN-FAILOVER"}
Lookups == CallsOf(rmOut, "getActiveReplicas") \cup CallsOf(rmOut, "getReplicas")
LocationsFiltered ==
  /\ Cardinality(Lookups) = 1
  /\ \A i \in Lookups :
       rmOut.calls[i].op = IF rmActive THEN "getActiveReplicas" ELSE "getReplicas"
  /\ rmCatalog.ok =>
       \A f \in rmLfns :
         LET all == DOMAIN rmCatalog.files[f].replicas
             keep == IF rmActive THEN all \ FailoverSEs ELSE all
         IN IF keep = {}
              THEN f \notin DOMAIN rmOut.value
              ELSE /\ f \in DOMAIN rmOut.value
                   /\ rmOut.value[f] = [se \in keep |-> rmCatalog.files[f].replicas[se]]

\* C18: a resolve call that asks the catalog uses the active-locations
\* operation when active is true and then hands on no failover location (a
\* file with failover locations only is absent), and uses the
\* all-locations operation when active is false and then drops nothing.
C18_ActiveOnly == rmVia = "resolve" => LocationsFiltered
\* The same of the method body, were it entered.
C18_ActiveOnlyInBody == rmVia = "direct" => LocationsFiltered
\* The pipeline's side of C18: a cycle with files to resolve, none of them
\* cached, asks the catalog with the active-locations operation exactly
\* when the type is neither replication nor removal.
C18_PipelineFlag ==
  PastEnumeration
    => /\ (CallsOf(cOut, "getActiveReplicas") # {}) <=> ~Sampled
       /\ (CallsOf(cOut, "getReplicas") # {}) <=> Sampled

\* C20: a cycle that reaches the submission records for its transformation
\* a count that is at least 0 and at most the number of Unused work-items
\* enumerated, whatever the type and whichever groups fail.
C20_CountBounds ==
  ReachesSubmission
    => /\ CycleTrans \in DOMAIN unusedFiles
       /\ unusedFiles[CycleTrans] >= 0
       /\ unusedFiles[CycleTrans] <= Len(cUnused)

\* ------------------------------------------------------------------
\* What a step of a resolve call for transformation t leaves alone.
FrameOf(t) ==
  /\ DOMAIN replicaCache' \ {t} \subseteq DOMAIN replicaCache
  /\ \A t2 \in DOMAIN replicaCache \ {t} :
       /\ \A ut \in DOMAIN replicaCache[t2] :
            ( /\ DOMAIN replicaCache[t2][ut] # {}
              /\ ut >= now' - replicaCacheValidity )
              => t2 \in DOMAIN replicaCache' /\ ut \in DOMAIN replicaCache'[t2]
       /\ t2 \in DOMAIN replicaCache'
            => \A ut \in DOMAIN replicaCache'[t2] :
                 /\ ut \in DOMAIN replicaCache[t2]
                 /\ replicaCache'[t2][ut] = replicaCache[t2][ut]

\* C19: a step of a resolve call for transformation T, whatever the other
\* workers are doing, adds no transformation and no snapshot other than
\* T's, changes no snapshot of another transformation, and removes a
\* snapshot of another transformation only when it is empty or older than
\* the validity window.
C19_Frame ==
  [][\A w \in Workers :
       rpc[w] # rpc'[w]
         => FrameOf(IF rpc[w] = "idle" THEN rTrans'[w] ELSE rTrans[w])]_vars
\* A call with cache hits is over whose eviction pass dropped its own
\* transformation as stale, while another worker, between its scan and its
\* eviction pass, still finds its transformation's snapshot in the cache.
C19_Witness ==
  \E w, w2 \in Workers :
    /\ rpc[w] = "done" /\ rOut[w].kind = "OK"
    /\ DOMAIN dataReplicas[w] # {}
    /\ rTrans[w] \notin DOMAIN replicaCache
    /\ rpc[w2] = "scanned"
    /\ DOMAIN dataReplicas[w2] # {}
    /\ rTrans[w2] \in DOMAIN replicaCache

====
